---- MODULE Spec2Model ----
(***************************************************************************)
(* Model of h2o-py/h2o/automl/autoh2o.py: the H2OAutoML facade.            *)
(*                                                                         *)
(* Python values are tagged records so that None, ints, floats and strings *)
(* can be compared with each other.  Dicts are functions whose DOMAIN is  *)
(* the set of keys present.  Exceptions are named by their Python class.   *)
(***************************************************************************)
EXTENDS Integers, Sequences, FiniteSets, TLC

VARIABLES
  ctor,           \* the arguments the constructor was called with
  build_control,  \* self.build_control
  project_name,   \* self.project_name
  _job,           \* self._job
  _automl_key,    \* self._automl_key
  _leader_id,     \* self._leader_id
  _leaderboard,   \* self._leaderboard
  remote,         \* the server: run key -> result of GET /99/AutoML/<key>
  op,             \* the operation called last ("init" before any call)
  args,           \* the arguments of the train call (last or pending)
  err,            \* the exception the last operation raised, NoError if none
  calls,          \* the collaborator calls the last operation made, in order
  sent,           \* the json the last operation POSTed, NotSent if none
  resp,           \* the answer to that POST, NoResp if none
  job_status,     \* how the job of that answer ended, "" if there is none
  ret,            \* the value the last operation returned
  printed         \* what the last operation printed

vars == <<ctor, build_control, project_name, _job, _automl_key, _leader_id,
          _leaderboard, remote, op, args, err, calls, sent, resp, job_status,
          ret, printed>>

facade == <<build_control, project_name, _job, _automl_key, _leader_id, _leaderboard>>

-----------------------------------------------------------------------------
(* Python values *)

None == [k |-> "none", i |-> 0, s |-> ""]
PyInt(n) == [k |-> "int", i |-> n, s |-> ""]
PyStr(t) == [k |-> "str", i |-> 0, s |-> t]
\* a float, in thousandths
PyFloat(n) == [k |-> "float", i |-> n, s |-> ""]
PyBool(b) == [k |-> "bool", i |-> IF b THEN 1 ELSE 0, s |-> ""]
\* a handle to an H2OFrame held by the server, by frame_id
Frame(id) == [k |-> "frame", i |-> 0, s |-> id]

\* {}
EmptyDict == [z \in {} |-> None]

\* is_type(v, int) / is_type(v, str)
is_int(v) == v.k = "int"
is_str(v) == v.k = "str"

-----------------------------------------------------------------------------
(* Bounds *)

\* longest list of predictors x
MaxX == 2
\* how far past the last column an integer index is drawn
IdxSlack == 1
\* how many models a leaderboard lists at most
MaxListed == 2

-----------------------------------------------------------------------------
(* The frames on the server *)

FrameIds == {"F1", "F2"}

\* training_frame.names
FrameNames(id) ==
  IF id = "F1" THEN <<"a", "b", "target">> ELSE <<"a", "b", "c", "target">>

\* set(names)
NameSet(names) == {names[j] : j \in 1..Len(names)}

\* names[i] for a Python index i that is in range: negative indices count from the end
PyIndex(names, i) == IF i < 0 THEN names[Len(names) + i + 1] ELSE names[i + 1]

-----------------------------------------------------------------------------
(* Exceptions *)

NoError == "ok"
\* line 205 on training_frame = None
AttributeErrorNcols == "AttributeError: 'NoneType' object has no attribute 'ncols'"
\* line 210
ValueErrorY == "ValueError: The response column (y) is not set"
\* line 225
ValueErrorFrame == "ValueError: The training frame is not set!"
\* lines 215, 219, 253, 257: H2OValueError is not imported by the module
NameErrorH2OValueError == "NameError: name 'H2OValueError' is not defined"
\* what lines 215, 219, 253 would raise if H2OValueError were imported
H2OValueErrorColumn == "H2OValueError: Column does not exist in the training frame"
\* set.remove of a missing element, lines 261-262
KeyErrorRemove == "KeyError"
\* None.remove, line 262
AttributeErrorRemove == "AttributeError: 'NoneType' object has no attribute 'remove'"
\* "GET /99/AutoML/" + None, line 314
TypeErrorConcat == "TypeError: must be str, not NoneType"
\* H2OJob.poll on a failed job
JobFailed == "EnvironmentError: Job failed"

-----------------------------------------------------------------------------
(* __init__ *)

DefaultCtor ==
  [max_runtime_secs |-> PyInt(3600), max_models |-> None, stopping_metric |-> PyStr("AUTO"),
   stopping_tolerance |-> PyFloat(1), stopping_rounds |-> PyInt(3), seed |-> None,
   project_name |-> None]

\* StoppingCriteria, were max_models encoded whether or not it was given
StoppingCriteria_AlwaysMaxModels(c) ==
  ("max_runtime_secs" :> c.max_runtime_secs)
  @@ ("max_models" :> c.max_models)
  @@ ("stopping_metric" :> c.stopping_metric)
  @@ ("stopping_tolerance" :> c.stopping_tolerance)
  @@ ("stopping_rounds" :> c.stopping_rounds)
  @@ (IF c.seed # None THEN "seed" :> c.seed ELSE EmptyDict)

\* the 'stopping_criteria' dict built by lines 84-123
StoppingCriteria(c) ==
  ("max_runtime_secs" :> c.max_runtime_secs)
  @@ (IF c.max_models # None THEN "max_models" :> c.max_models ELSE EmptyDict)
  @@ ("stopping_metric" :> c.stopping_metric)
  @@ ("stopping_tolerance" :> c.stopping_tolerance)
  @@ ("stopping_rounds" :> c.stopping_rounds)
  @@ (IF c.seed # None THEN "seed" :> c.seed ELSE EmptyDict)

\* self.build_control after __init__, lines 84-131
InitBuildControl(c) ==
  ("stopping_criteria" :> StoppingCriteria(c))
  @@ (IF c.project_name # None THEN "project_name" :> c.project_name ELSE EmptyDict)

\* self.project_name after __init__, lines 126-131
InitProjectName(c) == c.project_name

-----------------------------------------------------------------------------
(* train: the arguments *)

\* x = None, or x = a list of column references
NoList == [k |-> "none", items |-> <<>>]
PyList(items) == [k |-> "list", items |-> items]

\* the json of a job whose destination key is key, and the H2OJob made from it
Job(key) == [k |-> "job", i |-> 0, s |-> key]

\* y: lines 209-219.  The result is the exception raised, or the resolved name.
ResolveY(names, y) ==
  LET ncols == Len(names) IN
  IF y = None THEN [err |-> ValueErrorY, name |-> ""]
  ELSE IF is_int(y)
    THEN IF ~(-ncols <= y.i /\ y.i < ncols)
           THEN [err |-> NameErrorH2OValueError, name |-> ""]
           ELSE [err |-> NoError, name |-> PyIndex(names, y.i)]
    ELSE IF y.s \notin NameSet(names)
           THEN [err |-> NameErrorH2OValueError, name |-> ""]
           ELSE [err |-> NoError, name |-> y.s]

\* one element of x: lines 251-258
ResolveXi(names, xi) ==
  LET ncols == Len(names) IN
  IF is_int(xi)
    THEN IF ~(-ncols <= xi.i /\ xi.i < ncols)
           THEN [err |-> NameErrorH2OValueError, name |-> ""]
           ELSE [err |-> NoError, name |-> PyIndex(names, xi.i)]
    ELSE IF xi.s \notin NameSet(names)
           THEN [err |-> NameErrorH2OValueError, name |-> ""]
           ELSE [err |-> NoError, name |-> xi.s]

\* the loop of lines 248-258 from element j on: the first bad element raises
RECURSIVE ResolveX(_, _, _, _)
ResolveX(names, items, j, xset) ==
  IF j > Len(items) THEN [err |-> NoError, xset |-> xset]
  ELSE LET r == ResolveXi(names, items[j]) IN
       IF r.err # NoError THEN [err |-> r.err, xset |-> xset]
       ELSE ResolveX(names, items, j + 1, xset \cup {r.name})

\* a value of the variable ignored_columns: a set, or None
SomeSet(cols) == [none |-> FALSE, cols |-> cols]
NoSet == [none |-> TRUE, cols |-> {}]

\* ignored_columns = ignored_columns.remove(col): set.remove returns None, and
\* raises KeyError when col is not an element
RemoveAssign(ignored, col) ==
  IF ignored.none THEN [err |-> AttributeErrorRemove, val |-> NoSet]
  ELSE IF is_str(col) /\ col.s \in ignored.cols
    THEN [err |-> NoError, val |-> NoSet]
    ELSE [err |-> KeyErrorRemove, val |-> NoSet]

\* lines 260-262: the value of ignored_columns when line 263 tests it
IgnoredColumns(names, yname, xset, fold_column, weights_column) ==
  LET base == SomeSet((NameSet(names) \ {yname}) \ xset)
      f == IF fold_column # None THEN RemoveAssign(base, fold_column)
           ELSE [err |-> NoError, val |-> base]
      w == IF weights_column # None THEN RemoveAssign(f.val, weights_column)
           ELSE [err |-> NoError, val |-> f.val]
  IN IF f.err # NoError THEN f ELSE w

\* InputSpecBase, were input_spec to start with an empty list of ignored columns
InputSpecBase_EmptyIgnored(a, yname) ==
  ("response_column" :> PyStr(yname))
  @@ ("training_frame" :> PyStr(a.training_frame.s))
  @@ ("ignored_columns" :> {})
  @@ (IF a.fold_column # None THEN "fold_column" :> a.fold_column ELSE EmptyDict)
  @@ (IF a.weights_column # None THEN "weights_column" :> a.weights_column ELSE EmptyDict)
  @@ (IF a.validation_frame # None
        THEN "validation_frame" :> PyStr(a.validation_frame.s) ELSE EmptyDict)
  @@ (IF a.leaderboard_frame # None
        THEN "leaderboard_frame" :> PyStr(a.leaderboard_frame.s) ELSE EmptyDict)

\* input_spec as lines 220-244 leave it
InputSpecBase(a, yname) ==
  ("response_column" :> PyStr(yname))
  @@ ("training_frame" :> PyStr(a.training_frame.s))
  @@ (IF a.fold_column # None THEN "fold_column" :> a.fold_column ELSE EmptyDict)
  @@ (IF a.weights_column # None THEN "weights_column" :> a.weights_column ELSE EmptyDict)
  @@ (IF a.validation_frame # None
        THEN "validation_frame" :> PyStr(a.validation_frame.s) ELSE EmptyDict)
  @@ (IF a.leaderboard_frame # None
        THEN "leaderboard_frame" :> PyStr(a.leaderboard_frame.s) ELSE EmptyDict)

\* lines 205-264: the exception raised before the request is made, or input_spec
MakeInputSpec(a) ==
  IF a.training_frame = None THEN [err |-> AttributeErrorNcols, input_spec |-> EmptyDict]
  ELSE
    LET names == FrameNames(a.training_frame.s)
        ry == ResolveY(names, a.y)
    IN
    IF ry.err # NoError THEN [err |-> ry.err, input_spec |-> EmptyDict]
    ELSE
      LET base == InputSpecBase(a, ry.name) IN
      IF a.x = NoList THEN [err |-> NoError, input_spec |-> base]
      ELSE
        LET rx == ResolveX(names, a.x.items, 1, {}) IN
        IF rx.err # NoError THEN [err |-> rx.err, input_spec |-> EmptyDict]
        ELSE
          LET ig == IgnoredColumns(names, ry.name, rx.xset,
                                   a.fold_column, a.weights_column) IN
          IF ig.err # NoError THEN [err |-> ig.err, input_spec |-> EmptyDict]
          ELSE IF ig.val.none THEN [err |-> NoError, input_spec |-> base]
          ELSE [err |-> NoError,
                input_spec |-> base @@ ("ignored_columns" :> ig.val.cols)]

-----------------------------------------------------------------------------
(* The server *)

RunKeys == {"k1", "k2"}
ModelIds == {"m1", "m2"}

\* the lists of distinct model ids of length at most MaxListed
ModelLists ==
  {ms \in UNION {[1..n -> ModelIds] : n \in 0..MaxListed} :
     \A p, q \in 1..Len(ms) : p # q => ms[p] # ms[q]}

\* the answer to GET /99/AutoML/<key> for a run whose leaderboard lists ms:
\* res['leaderboard']['models'] and res['leaderboard_table'], the table having
\* one leading entry before the entries of the models
RunResult(ms) == [models |-> ms, leaderboard_table |-> <<"">> \o ms]

RunResults == {RunResult(ms) : ms \in ModelLists}

\* the answers to POST /99/AutoMLBuilder and what the run then does: no job;
\* or a job with a destination key, how its poll ends, and the run's result
NoJob == [resp |-> ("msg" :> PyStr("error")), poll |-> "", run |-> RunResult(<<>>)]
WithJob(key, pl, r) == [resp |-> ("job" :> Job(key)), poll |-> pl, run |-> r]
ServerAnswers ==
  {NoJob} \cup
  {WithJob(key, pl, r) : key \in RunKeys, pl \in {"DONE", "FAILED"}, r \in RunResults}

\* one answer of each kind
FewAnswers ==
  {NoJob, WithJob("k1", "DONE", RunResult(<<"m1">>)), WithJob("k1", "FAILED", RunResult(<<>>))}

-----------------------------------------------------------------------------
(* _fetch *)

\* the endpoints
POST == "POST /99/AutoMLBuilder"
GET == "GET /99/AutoML"

\* self._leaderboard: None, or a local frame
NoFrame == [none |-> TRUE, rows |-> <<>>]
H2OFrame(rows) == [none |-> FALSE, rows |-> rows]

\* LeaderOf, were the last entry of the list taken
LeaderOf_Last(leaderboard_list) ==
  IF Len(leaderboard_list) > 0
    THEN PyStr(leaderboard_list[Len(leaderboard_list)]) ELSE None

\* lines 315-320: the leader of the fetched list of model names
LeaderOf(leaderboard_list) ==
  IF Len(leaderboard_list) > 0 THEN PyStr(leaderboard_list[1]) ELSE None

\* _fetch, lines 313-322, on the key and the server's runs: the exception
\* raised, else the new _leader_id, the new _leaderboard, the value returned
\* and the calls made
fetch(key, runs) ==
  IF key = None
    THEN [err |-> TypeErrorConcat, leader |-> None, board |-> NoFrame,
          ret |-> PyBool(FALSE), calls |-> <<>>]
    ELSE LET res == runs[key.s]
             leader == LeaderOf(res.models)
         IN [err |-> NoError, leader |-> leader,
             board |-> H2OFrame(Tail(res.leaderboard_table)),
             ret |-> PyBool(leader # None), calls |-> <<GET>>]

-----------------------------------------------------------------------------
(* The operations *)

NotSent == EmptyDict
NoResp == EmptyDict
NoArgs ==
  [x |-> NoList, y |-> None, training_frame |-> None, fold_column |-> None,
   weights_column |-> None, validation_frame |-> None, leaderboard_frame |-> None]

\* NoJobReturn, were the results of the earlier run dropped
NoJobReturn_Reset ==
  /\ err' = NoError
  /\ calls' = <<POST>>
  /\ printed' = "Exception from the back end: "
  /\ _leader_id' = None
  /\ _leaderboard' = NoFrame
  /\ UNCHANGED <<project_name, _job, _automl_key, remote>>

\* lines 273-276: the answer has no 'job'
NoJobReturn ==
  /\ err' = NoError
  /\ calls' = <<POST>>
  /\ printed' = "Exception from the back end: "
  /\ UNCHANGED <<project_name, _job, _automl_key, _leader_id, _leaderboard, remote>>

\* lines 278-279: the job is kept, and the server runs it
Submitted(srv) ==
  /\ _job' = srv.resp["job"]
  /\ _automl_key' = PyStr(srv.resp["job"].s)
  /\ remote' = [remote EXCEPT ![srv.resp["job"].s] = srv.run]
  /\ printed' = ""

\* PollRaised, were the run fetched before the poll
PollRaised_FetchesFirst ==
  LET f == fetch(_automl_key', remote') IN
  /\ err' = JobFailed
  /\ calls' = <<POST>> \o f.calls \o <<"poll">>
  /\ _leader_id' = f.leader
  /\ _leaderboard' = f.board
  /\ UNCHANGED project_name

\* line 280 when the job failed: poll raises
PollRaised ==
  /\ err' = JobFailed
  /\ calls' = <<POST, "poll">>
  /\ UNCHANGED <<project_name, _leader_id, _leaderboard>>

\* DefaultProjectName, were the name set by every completed call
DefaultProjectName_Always(pn, training_frame) ==
  PyStr("automl_" \o training_frame.s)

\* lines 282-283
DefaultProjectName(pn, training_frame) ==
  IF pn = None THEN PyStr("automl_" \o training_frame.s) ELSE pn

\* lines 280-283 when the job is done
Completed(a) ==
  LET f == fetch(_automl_key', remote') IN
  /\ err' = f.err
  /\ calls' = <<POST, "poll">> \o f.calls
  /\ _leader_id' = f.leader
  /\ _leaderboard' = f.board
  /\ project_name' = DefaultProjectName(project_name, a.training_frame)

\* train, lines 205-283, called with the arguments a on a server that answers srv
train(a, srv) ==
  LET v == MakeInputSpec(a) IN
  /\ op' = "train"
  /\ args' = a
  /\ ret' = None
  /\ ctor' = ctor
  /\ build_control' = build_control
  /\ IF v.err # NoError
       THEN /\ err' = v.err
            /\ calls' = <<>>
            /\ sent' = NotSent
            /\ resp' = NoResp
            /\ job_status' = ""
            /\ printed' = ""
            /\ UNCHANGED <<project_name, _job, _automl_key, _leader_id, _leaderboard, remote>>
       ELSE
         /\ sent' = ("input_spec" :> v.input_spec) @@ ("build_control" :> build_control)
         /\ resp' = srv.resp
         /\ job_status' = srv.poll
         /\ IF "job" \notin DOMAIN srv.resp
              THEN NoJobReturn
              ELSE /\ Submitted(srv)
                   /\ IF srv.poll = "FAILED" THEN PollRaised ELSE Completed(a)

\* predict, lines 288-308
predict(test_data) ==
  LET f == fetch(_automl_key, remote) IN
  /\ op' = "predict"
  /\ sent' = NotSent
  /\ resp' = NoResp
  /\ job_status' = ""
  /\ err' = f.err
  /\ UNCHANGED <<ctor, build_control, project_name, _job, _automl_key, remote, args>>
  /\ IF f.err # NoError
       THEN /\ calls' = f.calls
            /\ ret' = None
            /\ printed' = ""
            /\ UNCHANGED <<_leader_id, _leaderboard>>
       ELSE /\ _leader_id' = f.leader
            /\ _leaderboard' = f.board
            /\ IF f.ret = PyBool(TRUE)
                 THEN /\ calls' = f.calls \o <<"get_model", "model.predict">>
                      /\ ret' = Frame("predictions_" \o test_data)
                      /\ printed' = ""
                 ELSE /\ calls' = f.calls
                      /\ ret' = None
                      /\ printed' = "No model built yet..."

\* _fetch called on its own
_fetch ==
  LET f == fetch(_automl_key, remote) IN
  /\ op' = "_fetch"
  /\ sent' = NotSent
  /\ resp' = NoResp
  /\ job_status' = ""
  /\ printed' = ""
  /\ err' = f.err
  /\ calls' = f.calls
  /\ UNCHANGED <<ctor, build_control, project_name, _job, _automl_key, remote, args>>
  /\ IF f.err # NoError
       THEN /\ ret' = None
            /\ UNCHANGED <<_leader_id, _leaderboard>>
       ELSE /\ ret' = f.ret
            /\ _leader_id' = f.leader
            /\ _leaderboard' = f.board

-----------------------------------------------------------------------------
(* The inputs *)

\* the column references drawn for a frame: every index from IdxSlack below
\* the first valid one to IdxSlack above the last, every name, an unknown name
ColRefs(names) ==
  {PyInt(n) : n \in (-(Len(names) + IdxSlack))..(Len(names) - 1 + IdxSlack)}
  \cup {PyStr(t) : t \in NameSet(names) \cup {"zz"}}

\* the lists x of at most MaxX column references
XLists(names) ==
  {PyList(items) : items \in UNION {[1..n -> ColRefs(names)] : n \in 0..MaxX}}

OptFrames == {None, Frame("F1")}

\* the train calls on the frame id, and the same calls without a training frame
WideArgs(id) ==
  LET names == FrameNames(id) IN
  {[NoArgs EXCEPT !.x = x, !.y = y, !.training_frame = tf, !.fold_column = fc,
                  !.weights_column = wc] :
     x \in {NoList} \cup XLists(names),
     y \in {None} \cup ColRefs(names),
     tf \in {None, Frame(id)},
     fc \in {None, PyStr("b")},
     wc \in {None, PyStr("c")}}

\* train calls with and without each optional argument
MidArgs ==
  {[x |-> x, y |-> y, training_frame |-> tf, fold_column |-> fc,
    weights_column |-> None, validation_frame |-> vf, leaderboard_frame |-> lf] :
     x \in {NoList, PyList(<<PyStr("a")>>)},
     y \in {None, PyStr("target"), PyInt(-1), PyInt(4)},
     tf \in {None, Frame("F1"), Frame("F2")},
     fc \in {None, PyStr("b")},
     vf \in OptFrames, lf \in OptFrames}

\* a few train calls on either frame
SmallArgs ==
  {[NoArgs EXCEPT !.y = y, !.training_frame = tf] :
     y \in {PyStr("target"), PyInt(4)},
     tf \in {None, Frame("F1"), Frame("F2")}}

\* the constructor calls
WideCtors ==
  {[max_runtime_secs |-> PyInt(rt), max_models |-> mm, stopping_metric |-> PyStr(sm),
    stopping_tolerance |-> PyFloat(st), stopping_rounds |-> PyInt(sr), seed |-> sd,
    project_name |-> pn] :
     rt \in {3600, 30}, mm \in {None, PyInt(0), PyInt(5)}, sm \in {"AUTO", "auc"},
     st \in {1, 5}, sr \in {3, 0}, sd \in {None, PyInt(0), PyInt(42)},
     pn \in {None, PyStr("p1")}}

SmallCtors == {DefaultCtor, [DefaultCtor EXCEPT !.project_name = PyStr("p1")]}

-----------------------------------------------------------------------------
(* The specifications *)

\* the facade after __init__(c), lines 56-136, on a server without runs
Constructed(c) ==
  /\ ctor = c
  /\ build_control = InitBuildControl(c)
  /\ project_name = InitProjectName(c)
  /\ _job = None
  /\ _automl_key = None
  /\ _leader_id = None
  /\ _leaderboard = NoFrame
  /\ remote = [key \in RunKeys |-> RunResult(<<>>)]
  /\ op = "init"
  /\ err = NoError
  /\ calls = <<>>
  /\ sent = NotSent
  /\ resp = NoResp
  /\ job_status = ""
  /\ ret = None
  /\ printed = ""

Init ==
  /\ \E c \in SmallCtors : Constructed(c)
  /\ args = NoArgs

Train == \E a \in SmallArgs, srv \in ServerAnswers : train(a, srv)

Predict == \E test_data \in FrameIds : predict(test_data)

Fetch == _fetch

Next == Train \/ Predict \/ Fetch

Spec == Init /\ [][Next]_vars

\* every train call, as the first call on a facade built with the defaults
InitTrain ==
  /\ Constructed(DefaultCtor)
  /\ args \in WideArgs("F2")

TrainPending == op = "init" /\ \E srv \in FewAnswers : train(args, srv)

NextTrain == TrainPending

SpecTrain == InitTrain /\ [][NextTrain]_vars

\* every constructor call, followed by one train call
InitCtor ==
  /\ \E c \in WideCtors : Constructed(c)
  /\ args \in MidArgs

NextCtor == TrainPending

SpecCtor == InitCtor /\ [][NextCtor]_vars

-----------------------------------------------------------------------------
(* What the claims speak of *)

\* r refers to a column of the frame: a name of it, or an index in -ncols..ncols-1
IsColumn(names, r) ==
  IF is_int(r) THEN -Len(names) <= r.i /\ r.i < Len(names) ELSE r.s \in NameSet(names)

\* the name of the column r refers to
ColumnOf(names, r) ==
  IF is_int(r) THEN names[((r.i + Len(names)) % Len(names)) + 1] ELSE r.s

\* r is an integer index with |r| >= ncols
OutOfRange(names, r) == is_int(r) /\ (r.i >= Len(names) \/ -r.i >= Len(names))

Range(seq) == {seq[j] : j \in 1..Len(seq)}

\* the last operation was a train call that was given a training frame
TrainedOn == op = "train" /\ args.training_frame # None

ArgNames == FrameNames(args.training_frame.s)

\* the last operation POSTed a request
Posted == "input_spec" \in DOMAIN sent

\* the columns the claim C1 expects to be ignored
ExpectedIgnored ==
  ((NameSet(ArgNames) \ {ColumnOf(ArgNames, args.y)})
     \ {ColumnOf(ArgNames, xi) : xi \in Range(args.x.items)})
     \ {ColumnOf(ArgNames, c) : c \in {args.fold_column, args.weights_column} \ {None}}

\* C1: after a train call with x given and x, y valid column references, the
\* request was sent and its ignored_columns are exactly all columns minus y
\* minus the columns of x minus the fold and weights columns that were given
C1_IgnoredColumnsExact ==
  (/\ TrainedOn
   /\ args.x # NoList
   /\ args.y # None
   /\ IsColumn(ArgNames, args.y)
   /\ \A xi \in Range(args.x.items) : IsColumn(ArgNames, xi))
  => /\ Posted
     /\ "ignored_columns" \in DOMAIN sent["input_spec"]
     /\ sent["input_spec"]["ignored_columns"] = ExpectedIgnored

\* C2: after a train call in which y, or with a valid y an element of x, is an
\* integer index i with |i| >= ncols, the call has raised the 'column does not
\* exist' error and no request was sent
C2_OutOfRangeIndexRejected ==
  (/\ TrainedOn
   /\ args.y # None
   /\ \/ OutOfRange(ArgNames, args.y)
      \/ /\ IsColumn(ArgNames, args.y)
         /\ \E xi \in Range(args.x.items) : OutOfRange(ArgNames, xi)
         /\ \A xi \in Range(args.x.items) : is_int(xi) \/ IsColumn(ArgNames, xi))
  => /\ err = H2OValueErrorColumn
     /\ ~Posted
     /\ calls = <<>>

\* C5: after a train call without y the call has raised the 'response column
\* (y) is not set' ValueError, after one without training_frame the 'training
\* frame is not set' ValueError (either of them when both are missing), and no
\* request was sent
C5_RequiredArgumentErrors ==
  (op = "train" /\ (args.y = None \/ args.training_frame = None))
  => /\ args.training_frame # None => err = ValueErrorY
     /\ args.y # None => err = ValueErrorFrame
     /\ err \in {ValueErrorY, ValueErrorFrame}
     /\ ~Posted
     /\ calls = <<>>

\* the list of model names the server holds for the facade's run, <<>> while
\* the facade has no run key
RemoteModels == IF _automl_key = None THEN <<>> ELSE remote[_automl_key.s].models

\* C4: after a predict call on a facade without a leader (no run key yet, or a
\* run whose leaderboard lists no model) the call has returned normally, has
\* printed the no-model message, and has neither fetched a model nor predicted
C4_PredictWithoutLeaderReports ==
  (op = "predict" /\ RemoteModels = <<>>)
  => /\ err = NoError
     /\ printed = "No model built yet..."
     /\ ret = None
     /\ "get_model" \notin Range(calls)
     /\ "model.predict" \notin Range(calls)

\* the last operation was a train call with only y and training_frame given,
\* both of them valid
PlainTrain ==
  /\ TrainedOn
  /\ args.x = NoList
  /\ args.fold_column = None
  /\ args.weights_column = None
  /\ args.validation_frame = None
  /\ args.leaderboard_frame = None
  /\ args.y # None
  /\ IsColumn(ArgNames, args.y)

\* C3 as claimed: after such a call the input_spec sent is exactly
\* {response_column, training_frame, ignored_columns: []}
C3_InputSpecWithEmptyIgnored ==
  PlainTrain
  => /\ Posted
     /\ DOMAIN sent["input_spec"] = {"response_column", "training_frame", "ignored_columns"}
     /\ sent["input_spec"]["response_column"] = PyStr(ColumnOf(ArgNames, args.y))
     /\ sent["input_spec"]["training_frame"] = PyStr(args.training_frame.s)
     /\ sent["input_spec"]["ignored_columns"] = {}

\* C3 as amended: after such a call the input_spec sent is exactly
\* {response_column: <name of y>, training_frame: <frame id>}, without an
\* ignored_columns entry
C3_InputSpecWithoutIgnored ==
  PlainTrain
  => /\ Posted
     /\ DOMAIN sent["input_spec"] = {"response_column", "training_frame"}
     /\ sent["input_spec"]["response_column"] = PyStr(ColumnOf(ArgNames, args.y))
     /\ sent["input_spec"]["training_frame"] = PyStr(args.training_frame.s)

C3_PlainTrainSent == PlainTrain /\ Posted /\ args.y = PyInt(-1)

TrainCompleted == op = "train" /\ err = NoError /\ calls = <<POST, "poll", GET>>

\* C7: build_control never changes; a project_name given to the constructor
\* never changes; a project_name that was not given stays None until a train
\* call submits, polls and fetches, becomes "automl_" + the id of that call's
\* training frame there, and never changes afterwards
C7_ConfigurationFixed ==
  /\ [](build_control = InitBuildControl(ctor))
  /\ [](ctor.project_name # None => project_name = ctor.project_name)
  /\ [][/\ build_control' = build_control
        /\ project_name # None => project_name' = project_name
        /\ (project_name = None /\ project_name' # None)
             => /\ TrainCompleted'
                /\ project_name' = PyStr("automl_" \o args'.training_frame.s)
        /\ (project_name = None /\ TrainCompleted')
             => project_name' = PyStr("automl_" \o args'.training_frame.s)]_vars

C7_NameKeptOnOtherFrame ==
  /\ ctor.project_name = None
  /\ project_name = PyStr("automl_F1")
  /\ TrainCompleted
  /\ args.training_frame = Frame("F2")

\* the last operation fetched the run and returned normally
Fetched == err = NoError /\ GET \in Range(calls)

\* C8: after a _fetch the leader is the first entry of the server's list of
\* model names, or None when the list is empty, the leaderboard is the
\* server's table, and the value returned tells whether there is a leader; and
\* a _fetch that follows a fetch changes neither the leader nor the leaderboard
C8_FetchIdempotent ==
  /\ []((op = "_fetch" /\ err = NoError)
          => /\ _leader_id = (IF RemoteModels = <<>> THEN None
                              ELSE PyStr(Head(RemoteModels)))
             /\ _leaderboard = H2OFrame(Tail(remote[_automl_key.s].leaderboard_table))
             /\ ret = PyBool(_leader_id # None))
  /\ [][(Fetched /\ op' = "_fetch" /\ err' = NoError)
          => (_leader_id' = _leader_id /\ _leaderboard' = _leaderboard)]_vars

C8_FetchReplacedLeader ==
  /\ op = "_fetch" /\ err = NoError
  /\ Len(RemoteModels) = 2
  /\ _leader_id = PyStr("m2")

\* C9: a train call whose request is answered without a 'job' returns
\* normally, makes no call after the POST, and leaves _job, _automl_key,
\* _leader_id, _leaderboard and project_name as they were
C9_NoJobLeavesState ==
  [][(op' = "train" /\ resp' # NoResp /\ "job" \notin DOMAIN resp')
       => /\ err' = NoError
          /\ calls' = <<POST>>
          /\ UNCHANGED <<_job, _automl_key, _leader_id, _leaderboard, project_name>>]_vars

C9_EarlierRunVisible ==
  /\ op = "train" /\ resp # NoResp /\ "job" \notin DOMAIN resp
  /\ _leader_id = PyStr("m1")
  /\ _automl_key = PyStr("k2")

\* C10: a train call that got a job POSTs, then polls, then fetches, and
\* fetches only if the job was done; when the job failed the call raises,
\* makes no fetch, and leaves project_name, _leader_id and _leaderboard as
\* they were
C10_SubmitPollFetch ==
  /\ []((op = "train" /\ "job" \in DOMAIN resp)
          => /\ Len(calls) >= 2 /\ calls[1] = POST /\ calls[2] = "poll"
             /\ GET \in Range(calls) => (job_status = "DONE" /\ calls = <<POST, "poll", GET>>)
             /\ job_status = "DONE" => GET \in Range(calls))
  /\ [][(op' = "train" /\ "job" \in DOMAIN resp' /\ job_status' = "FAILED")
          => /\ err' = JobFailed
             /\ GET \notin Range(calls')
             /\ UNCHANGED <<project_name, _leader_id, _leaderboard>>]_vars

C10_FailedJobKeepsLeader ==
  /\ op = "train" /\ job_status = "FAILED"
  /\ err = JobFailed
  /\ _leader_id = PyStr("m1")
  /\ remote[_automl_key.s].models = <<"m2">>

====
